---- MODULE Spec2Model ----
(***************************************************************************)
(* Model of the /detect-bpm handler of src/main.py (detect_bpm).           *)
(*                                                                         *)
(* One request is followed from validation to its HTTP response.  The      *)
(* calls into the audio library (load, onset_strength, beat_track, tempo)  *)
(* and into the file system are the environment: each either raises or     *)
(* returns a value drawn from a small set.                                 *)
(*                                                                         *)
(* Numbers.  A tempo is held as an integer number of sixteenths of a BPM   *)
(* (Bpm(120) = 1920).  The values the library returns are multiples of     *)
(* half a BPM, so every median and every halving the handler computes is   *)
(* exact in sixteenths.  A confidence is held as an exact fraction         *)
(* [num, den].  round(x, 2) is modelled by Round2, which yields an integer *)
(* number of hundredths, ties to even as Python rounds an exactly          *)
(* representable float.                                                    *)
(*                                                                         *)
(* Not modelled: logging, sr / duration_seconds of the result, and         *)
(* tempo_std, which is only logged.                                        *)
(***************************************************************************)
EXTENDS Integers, Sequences, FiniteSets, TLC

VARIABLES
    file,             \* the request: [present, filename, size]
    pc,               \* position of the handler
    file_ext,         \* line 61
    contents,         \* line 75: number of bytes read, -1 before the read
    temp_file_path,   \* line 70 / 84: "None" or "tmp"
    tempCreated,      \* history: NamedTemporaryFile created a file (line 82)
    tempExists,       \* file system: the temporary file exists now
    decode,           \* history: outcome of librosa.load: "none", "raised", "loaded"
    y,                \* line 90: the waveform [len, silent], len = -1 before load
    analysisStarted,  \* history: onset_strength was called (line 98)
    tempo1,           \* line 107
    tempo2,           \* line 119
    tempo3_array,     \* line 124
    tempo3,           \* line 134 / 137
    tempos,           \* line 142-144
    median,           \* line 146: accurate_bpm before the range correction
    accurate_bpm,     \* line 156-159: accurate_bpm after the range correction
    confidence,       \* line 149-153
    response          \* [status, bpm, confidence, method1_bpm, method2_bpm, method3_bpm]

vars == <<file, pc, file_ext, contents, temp_file_path, tempCreated, tempExists,
          decode, y, analysisStarted, tempo1, tempo2, tempo3_array, tempo3,
          tempos, median, accurate_bpm, confidence, response>>

----------------------------------------------------------------------------
(* Bounds of the model *)

MaxContentLen == 1
MaxSamples == 1
MaxArr == 2

(* Program constants *)

MinBpm == 60
MaxBpm == 200
VarianceDivisor == 400

----------------------------------------------------------------------------
(* Units and rounding *)

\* x BPM in sixteenths of a BPM
Bpm(x) == x * 16

\* h half-BPMs in sixteenths of a BPM
HalfBpm(h) == h * 8

\* a Python name not yet assigned
NoValue == 0 - 1

Frac(n, d) == [num |-> n, den |-> d]

\* round(num/den, 2) in hundredths, num >= 0, den > 0; ties go to the even digit
Round2(num, den) ==
    LET q == (100 * num) \div den
        r == (100 * num) % den
    IN  IF 2 * r < den THEN q
        ELSE IF 2 * r > den THEN q + 1
        ELSE IF q % 2 = 0 THEN q ELSE q + 1

\* round(t, 2) of a tempo held in sixteenths
Round2Bpm(t) == Round2(t, 16)

----------------------------------------------------------------------------
(* File names: sequences of one-character strings *)

UpperCase == <<"A", "B", "C", "D", "E", "F", "G", "H", "I", "J", "K", "L", "M",
               "N", "O", "P", "Q", "R", "S", "T", "U", "V", "W", "X", "Y", "Z">>
LowerCase == <<"a", "b", "c", "d", "e", "f", "g", "h", "i", "j", "k", "l", "m",
               "n", "o", "p", "q", "r", "s", "t", "u", "v", "w", "x", "y", "z">>

LowerChar(c) ==
    IF \E i \in 1..Len(UpperCase) : UpperCase[i] = c
    THEN LowerCase[CHOOSE i \in 1..Len(UpperCase) : UpperCase[i] = c]
    ELSE c

\* str.lower()
Lower(s) == [i \in 1..Len(s) |-> LowerChar(s[i])]

\* os.path.splitext(name)[1]: from the last dot on, empty when the name has no
\* dot or when only dots precede the last dot
SplitExt(name) ==
    LET dots == {i \in 1..Len(name) : name[i] = "."}
    IN  IF dots = {} THEN <<>>
        ELSE LET last == CHOOSE i \in dots : \A j \in dots : j <= i
             IN  IF \A j \in 1..(last - 1) : name[j] = "." THEN <<>>
                 ELSE SubSeq(name, last, Len(name))

allowed_extensions ==
    { <<".", "m", "p", "3">>, <<".", "w", "a", "v">>, <<".", "f", "l", "a", "c">>,
      <<".", "o", "g", "g">>, <<".", "m", "4", "a">>, <<".", "a", "i", "f", "f">>,
      <<".", "a", "i", "f">> }

FileExtOf(name) == Lower(SplitExt(name))

ExtAllowed(ext) == ext \in allowed_extensions

\* the length check of line 78 left out
IsEmptyUpload_Never(n) == FALSE

IsEmptyUpload(n) == n = 0

----------------------------------------------------------------------------
(* The reconciler: lines 131-159 *)

\* 60 <= t <= 200
InBand(t) == Bpm(MinBpm) <= t /\ t <= Bpm(MaxBpm)

RECURSIVE SumSeq(_)
SumSeq(s) == IF s = <<>> THEN 0 ELSE Head(s) + SumSeq(Tail(s))

RECURSIVE SumSquares(_)
SumSquares(s) == IF s = <<>> THEN 0 ELSE Head(s) * Head(s) + SumSquares(Tail(s))

Sorted(s) == SortSeq(s, LAMBDA a, b : a < b)

\* the mean in place of the median
Median_Mean(s) == SumSeq(s) \div Len(s)

\* np.median of a non-empty list: the middle element, or the mean of the two
\* middle elements
Median(s) ==
    LET n == Len(s)
        t == Sorted(s)
    IN  IF n % 2 = 1 THEN t[(n + 1) \div 2]
        ELSE (t[n \div 2] + t[n \div 2 + 1]) \div 2

\* the sample variance (divisor n - 1) in place of the population variance
Variance_Sample(s) ==
    LET n == Len(s)
        S == SumSeq(s)
        dev == [i \in 1..n |-> n * s[i] - S]
    IN  Frac(SumSquares(dev), n * n * (n - 1) * 256)

\* np.var: the mean of the squared deviations from the mean, in BPM^2.
\* With n values x_i (sixteenths) of sum S, x_i - S/n = (n*x_i - S)/n, so the
\* variance is Sum (n*x_i - S)^2 / (n^3 * 16^2).
Variance(s) ==
    LET n == Len(s)
        S == SumSeq(s)
        dev == [i \in 1..n |-> n * s[i] - S]
    IN  Frac(SumSquares(dev), n * n * n * 256)

\* max(0.0, min(1.0, f))
Clamp01(f) ==
    IF f.num < 0 THEN Frac(0, f.den)
    ELSE IF f.num > f.den THEN Frac(f.den, f.den)
    ELSE f

\* no fallback to method 1 when the filter leaves nothing
Tempo3Of_NoFallback(arr, t1) ==
    LET kept == SelectSeq(arr, InBand)
    IN  IF Len(kept) > 0 THEN Median(kept) ELSE 0

\* lines 131-138: tempo3 from the distribution of method 3
Tempo3Of(arr, t1) ==
    LET kept == SelectSeq(arr, InBand)
    IN  IF Len(kept) > 0 THEN Median(kept) ELSE t1

\* lines 142-144
TemposOf(t1, t2, t3) ==
    LET kept == SelectSeq(<<t1, t2, t3>>, InBand)
    IN  IF kept = <<>> THEN <<t1>> ELSE kept

\* the variance branch taken for a single candidate too
ConfidenceOf_AlwaysVariance(ts) ==
    LET v == Variance(ts)
    IN  Clamp01(Frac(v.den * VarianceDivisor - v.num, v.den * VarianceDivisor))

\* lines 149-153
ConfidenceOf(ts) ==
    IF Len(ts) >= 2
    THEN LET v == Variance(ts)
         IN  Clamp01(Frac(v.den * VarianceDivisor - v.num, v.den * VarianceDivisor))
    ELSE Frac(7, 10)

\* the correction repeated until the value is in range
RECURSIVE RangeCorrect_Repeated(_)
RangeCorrect_Repeated(b) ==
    IF b <= 0 THEN b
    ELSE IF b < Bpm(MinBpm) THEN RangeCorrect_Repeated(b * 2)
    ELSE IF b > Bpm(MaxBpm) THEN RangeCorrect_Repeated(b \div 2)
    ELSE b

\* lines 156-159
RangeCorrect(b) ==
    IF b < Bpm(MinBpm) THEN b * 2
    ELSE IF b > Bpm(MaxBpm) THEN b \div 2
    ELSE b

----------------------------------------------------------------------------
(* The environment *)

Filenames ==
    { <<"a", ".", "m", "p", "3">>,
      <<"B", ".", "W", "A", "V">>,
      <<"a", ".", "t", "x", "t">>,
      <<"m", "p", "3">>,
      <<".", "o", "g", "g">> }

Requests ==
    {[present |-> FALSE, filename |-> <<>>, size |-> 0]}
    \cup {[present |-> TRUE, filename |-> f, size |-> n] :
              f \in Filenames, n \in 0..MaxContentLen}

Waveforms ==
    {[len |-> 0, silent |-> FALSE]}
    \cup {[len |-> n, silent |-> s] : n \in 1..MaxSamples, s \in BOOLEAN}

\* 0, 20, 45, 59.5, 60, 100, 118, 120, 200, 200.5, 220, 450 BPM
Tempo1Values == {HalfBpm(h) : h \in {0, 40, 90, 119, 120, 200, 236, 240, 400, 401, 440, 900}}

\* 45, 60, 120, 200, 220 BPM
Tempo2Values == {HalfBpm(h) : h \in {90, 120, 240, 400, 440}}

\* 120, 120.5, 140, 160, 220 BPM
Tempo3Values == {HalfBpm(h) : h \in {240, 241, 280, 320, 440}}

Tempo3Arrays == UNION {[1..n -> Tempo3Values] : n \in 0..MaxArr}

NoBody == [bpm |-> NoValue, confidence |-> NoValue, method1_bpm |-> NoValue,
           method2_bpm |-> NoValue, method3_bpm |-> NoValue]

----------------------------------------------------------------------------
(* The handler *)

Init ==
    /\ file \in Requests
    /\ pc = "validate"
    /\ file_ext = <<>>
    /\ contents = NoValue
    /\ temp_file_path = "None"
    /\ tempCreated = FALSE
    /\ tempExists = FALSE
    /\ decode = "none"
    /\ y = [len |-> NoValue, silent |-> FALSE]
    /\ analysisStarted = FALSE
    /\ tempo1 = NoValue
    /\ tempo2 = NoValue
    /\ tempo3_array = <<>>
    /\ tempo3 = NoValue
    /\ tempos = <<>>
    /\ median = NoValue
    /\ accurate_bpm = NoValue
    /\ confidence = Frac(0, 1)
    /\ response = [status |-> 0] @@ NoBody

\* lines 186-193: what is left of the temporary file after the finally block
CleanUp(path, exists, unlinkOk) ==
    IF path # "None" /\ exists /\ unlinkOk THEN FALSE ELSE exists

\* The request ends inside the try block: the response is fixed (return, or
\* the except clauses of lines 177-184), then the finally block runs.
Finish(status, body, path, exists) ==
    /\ response' = [status |-> status] @@ body
    /\ \E unlinkOk \in BOOLEAN : tempExists' = CleanUp(path, exists, unlinkOk)
    /\ pc' = "done"

\* lines 55-67, before the try block
Validate ==
    /\ pc = "validate"
    /\ IF ~file.present
       THEN /\ response' = [status |-> 400] @@ NoBody
            /\ pc' = "done"
            /\ UNCHANGED file_ext
       ELSE /\ file_ext' = FileExtOf(file.filename)
            /\ IF ~ExtAllowed(file_ext')
               THEN /\ response' = [status |-> 400] @@ NoBody
                    /\ pc' = "done"
               ELSE /\ pc' = "read"
                    /\ UNCHANGED response
    /\ UNCHANGED <<file, contents, temp_file_path, tempCreated, tempExists, decode, y,
                   analysisStarted, tempo1, tempo2, tempo3_array, tempo3, tempos,
                   median, accurate_bpm, confidence>>

\* lines 75-79
ReadUpload ==
    /\ pc = "read"
    /\ \E readOk \in BOOLEAN :
         IF ~readOk
         THEN /\ Finish(500, NoBody, temp_file_path, tempExists)
              /\ UNCHANGED contents
         ELSE /\ contents' = file.size
              /\ IF IsEmptyUpload(contents')
                 THEN Finish(400, NoBody, temp_file_path, tempExists)
                 ELSE /\ pc' = "tempfile"
                      /\ UNCHANGED <<response, tempExists>>
    /\ UNCHANGED <<file, file_ext, temp_file_path, tempCreated, decode, y,
                   analysisStarted, tempo1, tempo2, tempo3_array, tempo3, tempos,
                   median, accurate_bpm, confidence>>

\* lines 82-84: NamedTemporaryFile(delete=False) creates the file, write fills
\* it, and only then is temp_file_path assigned
CreateTempFile ==
    /\ pc = "tempfile"
    /\ \E outcome \in {"ok", "create_raises", "write_raises"} :
         IF outcome = "create_raises"
         THEN /\ Finish(500, NoBody, temp_file_path, tempExists)
              /\ UNCHANGED <<temp_file_path, tempCreated>>
         ELSE /\ tempCreated' = TRUE
              /\ IF outcome = "write_raises"
                 THEN /\ Finish(500, NoBody, temp_file_path, TRUE)
                      /\ UNCHANGED temp_file_path
                 ELSE /\ temp_file_path' = "tmp"
                      /\ tempExists' = TRUE
                      /\ pc' = "load"
                      /\ UNCHANGED response
    /\ UNCHANGED <<file, file_ext, contents, decode, y, analysisStarted, tempo1,
                   tempo2, tempo3_array, tempo3, tempos, median, accurate_bpm,
                   confidence>>

\* lines 90-94
LoadAudio ==
    /\ pc = "load"
    /\ \/ /\ decode' = "raised"
          /\ Finish(500, NoBody, temp_file_path, tempExists)
          /\ UNCHANGED y
       \/ /\ decode' = "loaded"
          /\ \E w \in Waveforms :
               /\ y' = w
               /\ IF w.len = 0
                  THEN Finish(400, NoBody, temp_file_path, tempExists)
                  ELSE /\ pc' = "onset"
                       /\ UNCHANGED <<response, tempExists>>
    /\ UNCHANGED <<file, file_ext, contents, temp_file_path, tempCreated,
                   analysisStarted, tempo1, tempo2, tempo3_array, tempo3, tempos,
                   median, accurate_bpm, confidence>>

\* line 98
OnsetStrength ==
    /\ pc = "onset"
    /\ analysisStarted' = TRUE
    /\ \/ Finish(500, NoBody, temp_file_path, tempExists)
       \/ /\ pc' = "method1"
          /\ UNCHANGED <<response, tempExists>>
    /\ UNCHANGED <<file, file_ext, contents, temp_file_path, tempCreated, decode, y,
                   tempo1, tempo2, tempo3_array, tempo3, tempos, median,
                   accurate_bpm, confidence>>

\* lines 102-107
Method1 ==
    /\ pc = "method1"
    /\ \/ /\ Finish(500, NoBody, temp_file_path, tempExists)
          /\ UNCHANGED tempo1
       \/ /\ tempo1' \in Tempo1Values
          /\ pc' = "method2"
          /\ UNCHANGED <<response, tempExists>>
    /\ UNCHANGED <<file, file_ext, contents, temp_file_path, tempCreated, decode, y,
                   analysisStarted, tempo2, tempo3_array, tempo3, tempos, median,
                   accurate_bpm, confidence>>

\* lines 112-119
Method2 ==
    /\ pc = "method2"
    /\ \/ /\ Finish(500, NoBody, temp_file_path, tempExists)
          /\ UNCHANGED tempo2
       \/ /\ tempo2' \in Tempo2Values
          /\ pc' = "method3"
          /\ UNCHANGED <<response, tempExists>>
    /\ UNCHANGED <<file, file_ext, contents, temp_file_path, tempCreated, decode, y,
                   analysisStarted, tempo1, tempo3_array, tempo3, tempos, median,
                   accurate_bpm, confidence>>

\* lines 124-138
Method3 ==
    /\ pc = "method3"
    /\ \/ /\ Finish(500, NoBody, temp_file_path, tempExists)
          /\ UNCHANGED <<tempo3_array, tempo3>>
       \/ /\ tempo3_array' \in Tempo3Arrays
          /\ tempo3' = Tempo3Of(tempo3_array', tempo1)
          /\ pc' = "reconcile"
          /\ UNCHANGED <<response, tempExists>>
    /\ UNCHANGED <<file, file_ext, contents, temp_file_path, tempCreated, decode, y,
                   analysisStarted, tempo1, tempo2, tempos, median, accurate_bpm,
                   confidence>>

\* lines 163-172
ResultOf(bpm, conf, t1, t2, t3) ==
    [bpm |-> Round2Bpm(bpm), confidence |-> Round2(conf.num, conf.den),
     method1_bpm |-> Round2Bpm(t1), method2_bpm |-> Round2Bpm(t2),
     method3_bpm |-> Round2Bpm(t3)]

\* lines 142-175
Reconcile ==
    /\ pc = "reconcile"
    /\ tempos' = TemposOf(tempo1, tempo2, tempo3)
    /\ median' = Median(tempos')
    /\ confidence' = ConfidenceOf(tempos')
    /\ accurate_bpm' = RangeCorrect(median')
    /\ Finish(200, ResultOf(accurate_bpm', confidence', tempo1, tempo2, tempo3),
              temp_file_path, tempExists)
    /\ UNCHANGED <<file, file_ext, contents, temp_file_path, tempCreated, decode, y,
                   analysisStarted, tempo1, tempo2, tempo3_array, tempo3>>

Next ==
    \/ Validate
    \/ ReadUpload
    \/ CreateTempFile
    \/ LoadAudio
    \/ OnsetStrength
    \/ Method1
    \/ Method2
    \/ Method3
    \/ Reconcile

Spec == Init /\ [][Next]_vars

----------------------------------------------------------------------------
(* Vocabulary of the properties *)

Done == pc = "done"

Succeeded == pc = "done" /\ response.status = 200

Candidates == <<tempo1, tempo2, tempo3>>

\* positions of the candidates that lie in [60, 200] BPM
QualifyingIdx == {i \in 1..3 : Candidates[i] >= 60 * 16 /\ Candidates[i] <= 200 * 16}

\* m is the median of the candidates at the positions I (1 to 3 of them): the
\* only one, half the sum of the two, or the one of three that has another on
\* either side
IsMedianOf(m, I) ==
    CASE Cardinality(I) = 1 -> \A i \in I : m = Candidates[i]
      [] Cardinality(I) = 2 -> \E i, j \in I : i # j /\ 2 * m = Candidates[i] + Candidates[j]
      [] Cardinality(I) = 3 ->
            \E i, j, k \in I :
                /\ {i, j, k} = I
                /\ Candidates[i] <= Candidates[j] /\ Candidates[j] <= Candidates[k]
                /\ m = Candidates[j]

\* Sum over the pairs i < j of (s[i] - s[j])^2: n^2 times the variance of s
PairSquares(s) ==
    LET pairs == {p \in (1..Len(s)) \X (1..Len(s)) : p[1] < p[2]}
        sq[P \in SUBSET pairs] ==
            IF P = {} THEN 0
            ELSE LET p == CHOOSE q \in P : TRUE
                 IN  (s[p[1]] - s[p[2]]) * (s[p[1]] - s[p[2]]) + sq[P \ {p}]
    IN  sq[pairs]

\* 400 BPM^2 on the scale of PairSquares(s)
FullSpread(s) == 400 * Len(s) * Len(s) * 256

\* clamp(1 - variance/400, 0, 1) of s in hundredths, from the pairwise form
ExpectedConfidence(s) ==
    IF PairSquares(s) >= FullSpread(s) THEN 0
    ELSE Round2(FullSpread(s) - PairSquares(s), FullSpread(s))

\* variance(s) <= variance(t)
VarianceLeq(s, t) ==
    PairSquares(s) * Len(t) * Len(t) <= PairSquares(t) * Len(s) * Len(s)

\* reference candidate lists for the monotonicity comparison, with their
\* variance (as PairSquares over n^2) and their confidence in hundredths
RefLists ==
    LET V == {Bpm(b) : b \in {60, 100, 120, 140, 200}}
    IN  {<<a, b>> : a \in V, b \in V} \cup {<<a, b, Bpm(120)>> : a \in V, b \in V}

RefTable ==
    {[ps |-> PairSquares(s), n |-> Len(s),
      conf |-> Round2(ConfidenceOf(s).num, ConfidenceOf(s).den)] : s \in RefLists}

\* file names the extension gate must reject / must let through
RejectedNames == { <<"a", ".", "t", "x", "t">>, <<"m", "p", "3">> }
AcceptedNames == { <<"a", ".", "m", "p", "3">>, <<"B", ".", "W", "A", "V">> }

ValidationError ==
    \/ ~file.present
    \/ file.filename \in RejectedNames
    \/ contents = 0

DecodeError == decode = "raised" \/ (decode = "loaded" /\ y.len = 0)

----------------------------------------------------------------------------
(* The claims *)

\* C1: every successful response carries a bpm within [60, 200].
C1_BpmInBand ==
    Succeeded => (response.bpm >= MinBpm * 100 /\ response.bpm <= MaxBpm * 100)

\* C2: the range correction is one pass over the reconciled median, before
\* rounding: below 60 the final BPM is twice the median, above 200 half of it,
\* otherwise the median itself; it is never doubled or halved a second time
\* (median 45 gives 90, median 220 gives 110).
C2_SinglePassCorrection ==
    Succeeded =>
        /\ median < 60 * 16 => accurate_bpm = 2 * median
        /\ median > 200 * 16 => 2 * accurate_bpm = median
        /\ (median >= 60 * 16 /\ median <= 200 * 16) => accurate_bpm = median
        /\ 16 * response.bpm - 100 * accurate_bpm <= 8
        /\ 100 * accurate_bpm - 16 * response.bpm <= 8
        /\ median = 45 * 16 => response.bpm = 9000
        /\ median = 220 * 16 => response.bpm = 11000
        /\ median = 20 * 16 => response.bpm = 4000

C2_Witness == Succeeded /\ median = 45 * 16 /\ response.bpm = 9000

\* C3: the reconciled BPM is the median of exactly the candidates among tempo1,
\* tempo2, tempo3 that lie in [60, 200]; when none does it is tempo1 alone
\* ({118, 120, 160} gives 120).
C3_MedianOfQualifying ==
    Succeeded =>
        /\ IF QualifyingIdx = {} THEN median = tempo1
           ELSE IsMedianOf(median, QualifyingIdx)
        /\ {tempo1, tempo2, tempo3} = {118 * 16, 120 * 16, 160 * 16} => median = 120 * 16

C3_Witness ==
    /\ Succeeded
    /\ {tempo1, tempo2, tempo3} = {118 * 16, 120 * 16, 160 * 16}
    /\ response.bpm = 12000

\* C4: with two or more qualifying candidates the confidence is
\* clamp(1 - variance/400, 0, 1): within [0, 1], non-increasing in the variance,
\* 1.0 for {120, 120, 120}, about 0.33 for {100, 120, 140}, 0 from variance 400 on.
C4_ConfidenceFromVariance ==
    (Succeeded /\ Cardinality(QualifyingIdx) >= 2) =>
        LET qs == [i \in 1..Len(tempos) |-> tempos[i]]
        IN  /\ confidence.num >= 0 /\ confidence.num <= confidence.den
            /\ response.confidence >= 0 /\ response.confidence <= 100
            /\ response.confidence = ExpectedConfidence(qs)
            /\ PairSquares(qs) >= FullSpread(qs) => confidence.num = 0
            /\ \A r \in RefTable :
                 /\ PairSquares(qs) * r.n * r.n <= r.ps * Len(qs) * Len(qs)
                        => r.conf <= response.confidence
                 /\ PairSquares(qs) * r.n * r.n >= r.ps * Len(qs) * Len(qs)
                        => r.conf >= response.confidence
            /\ Candidates = <<120 * 16, 120 * 16, 120 * 16>> => response.confidence = 100
            /\ Candidates = <<100 * 16, 120 * 16, 140 * 16>> => response.confidence = 33

C4_Witness ==
    /\ Succeeded
    /\ Candidates = <<100 * 16, 120 * 16, 140 * 16>>
    /\ response.confidence = 33

\* C5: when the reconciler works from a single candidate (one qualifies, or
\* none and tempo1 is the fallback) the confidence is exactly 0.7, whatever the
\* value and whether or not the range correction then applies.
C5_SingleCandidateConfidence ==
    (Succeeded /\ Cardinality(QualifyingIdx) <= 1) =>
        /\ 10 * confidence.num = 7 * confidence.den
        /\ response.confidence = 70

C5_Witness ==
    /\ Succeeded
    /\ QualifyingIdx = {}
    /\ accurate_bpm = 2 * median
    /\ response.confidence = 70

\* C6: a silent input (a non-empty all-zero waveform) ends in the server-error
\* outcome, never in a successful response.
C6_SilentInputFails ==
    (Done /\ y.len > 0 /\ y.silent) => response.status = 500

\* C7: once a temporary file was created for a request, it no longer exists
\* when the request completes, on every path.
C7_TempFileRemoved ==
    (Done /\ tempCreated) => ~tempExists

\* C8: a decode error (decoding fails, or yields an empty waveform) is answered
\* with 400, never 500, and no analysis is started.
C8_DecodeErrorIsClientError ==
    (Done /\ DecodeError) => (response.status = 400 /\ ~analysisStarted)

\* C9: a validation error (no file, unsupported extension compared without
\* regard to case, zero-byte upload) is answered with 400 before any later
\* step: no temporary file, no decoding, no analysis; the 400 raised inside the
\* try block is not turned into a 500.
C9_ValidationRejectsEarly ==
    /\ ValidationError =>
          /\ ~tempCreated /\ ~tempExists /\ temp_file_path = "None"
          /\ decode = "none"
          /\ ~analysisStarted
          /\ pc \in {"validate", "read", "done"}
          /\ Done => response.status = 400
    /\ (file.present /\ file.filename \in AcceptedNames /\ Done /\ response.status = 400)
          => (contents = 0 \/ DecodeError)

C9_Witness ==
    /\ Done
    /\ file.present /\ file.filename \in AcceptedNames
    /\ contents = 0
    /\ response.status = 400
    /\ ~tempCreated

\* C10: when the distribution of method 3 has no value in [60, 200], tempo3 is
\* tempo1 and counts as a candidate of its own: with tempo1 in band there are
\* at least two candidates and the confidence comes from the variance, and
\* with tempo2 out of band the result is tempo1 with confidence exactly 1.0.
C10_FallbackCopyCounts ==
    (Succeeded /\ \A i \in 1..Len(tempo3_array) :
                      tempo3_array[i] < 60 * 16 \/ tempo3_array[i] > 200 * 16) =>
        /\ tempo3 = tempo1
        /\ (1 \in QualifyingIdx) =>
              /\ Len(tempos) >= 2
              /\ {1, 3} \subseteq QualifyingIdx
              /\ response.confidence =
                    ExpectedConfidence([i \in 1..Len(tempos) |-> tempos[i]])
              /\ (2 \notin QualifyingIdx) =>
                    /\ tempos = <<tempo1, tempo1>>
                    /\ 16 * response.bpm = 100 * tempo1
                    /\ confidence.num = confidence.den
                    /\ response.confidence = 100

C10_Witness ==
    /\ Succeeded
    /\ tempo3_array # <<>>
    /\ \A i \in 1..Len(tempo3_array) : tempo3_array[i] > 200 * 16
    /\ 1 \in QualifyingIdx
    /\ 2 \notin QualifyingIdx
    /\ response.confidence = 100

====
